---- MODULE Spec2Model ----
(***************************************************************************)
(* Model of the residential energy estimator of gridsight-site-planner     *)
(* (src/src/services/energy_service.py): the climate-zone resolver, the    *)
(* efficiency table, the monthly distribution tables and                   *)
(* EnergyService.estimate; and of the energy-estimate HTTP handler          *)
(* (src/src/routes/energy.py) with the solar lookup it awaits              *)
(* (src/src/services/solar_service.py).                                    *)
(*                                                                         *)
(* Numbers.  The code computes in binary floating point; the model         *)
(* computes the same expressions exactly, in fixed-point integers:         *)
(*   latitude                in tenths of a degree      (26.5  -> 265)     *)
(*   rate, factors, weights  in hundredths              (0.14  -> 14)      *)
(*   base factor             in tenths                  (3.5   -> 35)      *)
(*   annual kWh (unrounded)  in 1/200 kWh               (AnnualUnit)       *)
(*   monthly kWh (unrounded) in 1/60000 kWh             (MonthUnit)        *)
(*   kWh rounded to 1 dp     in tenths of a kWh                            *)
(*   cost rounded to 2 dp    in cents                                      *)
(*   offset_pct              in tenths of a percent     (12.5  -> 125)     *)
(* round(x, n) is modelled as rounding the exact value, halves to even.     *)
(* The code rounds the binary double, which for an exact half may lie on    *)
(* either side of it; the properties below are stated so that they do not   *)
(* depend on the way a half is resolved.                                    *)
(* The solar lookup's production, savings and sunshine hours are kept to    *)
(* whole kWh, cents and hours.                                              *)
(* An absent value (Python None) is the empty sequence, a present value x  *)
(* is the one-element sequence <<x>>.                                      *)
(*                                                                         *)
(* Specifications.                                                         *)
(*   Spec            one call of estimate on arguments drawn by Init       *)
(*   HttpSpec        one request through the HTTP handler                  *)
(*   SessionSpec     several calls one after the other in one process      *)
(*   ConcurrentSpec  several calls whose steps interleave                  *)
(* The variables a specification does not use keep their initial value.    *)
(***************************************************************************)
EXTENDS Integers, Sequences, FiniteSets, TLC

VARIABLES pc, args, solar, logged, result, exc, request, response,
          tables, history, api, calls

vars == <<pc, args, solar, logged, result, exc, request, response,
          tables, history, api, calls>>

None == << >>

Some(x) == <<x>>

----------------------------------------------------------------------------
(* Bounds of the model *)

\* largest latitude magnitude tried, in tenths of a degree
MaxLat10 == 900

\* largest solar annual production tried, in kWh
MaxProduction == 9000

----------------------------------------------------------------------------
(* Static tables *)

MONTH_NAMES ==
    << "January", "February", "March", "April", "May", "June", "July",
       "August", "September", "October", "November", "December" >>

\* The cooling weights brought to a sum of 1.00 (September 0.11).
MONTHLY_CDD_FACTORS_normalised ==
    [ January |-> 2, February |-> 3, March |-> 5, April |-> 8,
      May |-> 12, June |-> 16, July |-> 18, August |-> 17,
      September |-> 11, October |-> 5, November |-> 2, December |-> 1 ]

\* hundredths
MONTHLY_CDD_FACTORS ==
    [ January |-> 2, February |-> 3, March |-> 5, April |-> 8,
      May |-> 12, June |-> 16, July |-> 18, August |-> 17,
      September |-> 12, October |-> 5, November |-> 2, December |-> 1 ]

\* All the heating placed in January and December.
MONTHLY_HDD_FACTORS_winter_only ==
    [ January |-> 50, February |-> 0, March |-> 0, April |-> 0,
      May |-> 0, June |-> 0, July |-> 0, August |-> 0,
      September |-> 0, October |-> 0, November |-> 0, December |-> 50 ]

\* hundredths
MONTHLY_HDD_FACTORS ==
    [ January |-> 25, February |-> 20, March |-> 12, April |-> 5,
      May |-> 1, June |-> 0, July |-> 0, August |-> 0,
      September |-> 0, October |-> 2, November |-> 10, December |-> 25 ]

\* The degree days of 2A and 3A exchanged.
CLIMATE_ZONES_exchanged ==
    [ 1A |-> [cdd |-> 4000, hdd |-> 200,  rate |-> 14],
      2A |-> [cdd |-> 2000, hdd |-> 2000, rate |-> 13],
      3A |-> [cdd |-> 2800, hdd |-> 1200, rate |-> 12] ]

\* rate in hundredths of a currency unit per kWh
CLIMATE_ZONES ==
    [ 1A |-> [cdd |-> 4000, hdd |-> 200,  rate |-> 14],
      2A |-> [cdd |-> 2800, hdd |-> 1200, rate |-> 13],
      3A |-> [cdd |-> 2000, hdd |-> 2000, rate |-> 12] ]

EfficiencyLevel == {"efficient", "standard", "poor"}

\* The three tiers are identical to POOR: a table filled in by copy and paste.
EFFICIENCY_FACTORS_copied ==
    [ efficient |-> [cooling |-> 70, heating |-> 40, base |-> 45],
      standard  |-> [cooling |-> 70, heating |-> 40, base |-> 45],
      poor      |-> [cooling |-> 70, heating |-> 40, base |-> 45] ]

\* cooling, heating in hundredths; base in tenths of a kWh per sqft per year
EFFICIENCY_FACTORS ==
    [ efficient |-> [cooling |-> 35, heating |-> 15, base |-> 30],
      standard  |-> [cooling |-> 50, heating |-> 25, base |-> 35],
      poor      |-> [cooling |-> 70, heating |-> 40, base |-> 45] ]

----------------------------------------------------------------------------
(* Arithmetic *)

\* units of unrounded annual energy per kWh: base = sqft * tenths / 10 and
\* load = sqft * degree_days * hundredths / 1000 / 100 are both whole
\* multiples of 1/200 kWh, every degree-day value being a multiple of 100
\* and every factor a multiple of 5 hundredths
AnnualUnit == 10 * 20

\* units of unrounded monthly energy per kWh: annual / 12 and
\* annual * hundredths / 100 are both whole multiples of 1/300 annual unit
MonthUnit == AnnualUnit * 300

\* n / d rounded to the nearest integer, halves to the even neighbour (d > 0)
RoundPos(n, d) ==
    LET q == n \div d
        r == n % d
    IN  IF 2 * r < d THEN q
        ELSE IF 2 * r > d THEN q + 1
        ELSE IF q % 2 = 0 THEN q ELSE q + 1

\* Python round(): n / d rounded half to even, d # 0
Round(n, d) == IF d > 0 THEN RoundPos(n, d) ELSE RoundPos(-n, -d)

----------------------------------------------------------------------------
(* The climate zone resolver *)

\* The second boundary compared with <= : 30.5 falls into 2A.
get_climate_zone_inclusive(lat) ==
    IF lat < 265 THEN "1A"
    ELSE IF lat <= 305 THEN "2A"
    ELSE "3A"

get_climate_zone(lat) ==
    IF lat < 265 THEN "1A"
    ELSE IF lat < 305 THEN "2A"
    ELSE "3A"

----------------------------------------------------------------------------
(* EnergyService.estimate *)

\* sqft * tenths / 10, in annual units
BaseLoad(sqft, factor) == sqft * ((factor * AnnualUnit) \div 10)

\* sqft * degree_days * hundredths / 1000, in annual units
DegreeDayLoad(sqft, degree_days, factor) ==
    sqft * ((degree_days * factor * AnnualUnit) \div (1000 * 100))

\* The cooling load computed from the floor area.
annual_loads_floor_area(home_sqft, cooling_sqft, zone, factors) ==
    LET base_kwh    == BaseLoad(home_sqft, factors.base)
        cooling_kwh == DegreeDayLoad(home_sqft, zone.cdd, factors.cooling)
        heating_kwh == DegreeDayLoad(home_sqft, zone.hdd, factors.heating)
    IN  [ base_kwh     |-> base_kwh,
          cooling_kwh  |-> cooling_kwh,
          heating_kwh  |-> heating_kwh,
          total_annual |-> base_kwh + cooling_kwh + heating_kwh ]

\* the annual calculations, unrounded
annual_loads(home_sqft, cooling_sqft, zone, factors) ==
    LET base_kwh    == BaseLoad(home_sqft, factors.base)
        cooling_kwh == DegreeDayLoad(cooling_sqft, zone.cdd, factors.cooling)
        heating_kwh == DegreeDayLoad(home_sqft, zone.hdd, factors.heating)
    IN  [ base_kwh     |-> base_kwh,
          cooling_kwh  |-> cooling_kwh,
          heating_kwh  |-> heating_kwh,
          total_annual |-> base_kwh + cooling_kwh + heating_kwh ]

\* The month's total without the month's share of the base load.
MonthlyEnergy_without_base(month, annual, rate) ==
    LET month_base    == annual.base_kwh * ((MonthUnit \div AnnualUnit) \div 12)
        month_cooling == annual.cooling_kwh * MONTHLY_CDD_FACTORS[month]
                           * ((MonthUnit \div AnnualUnit) \div 100)
        month_heating == annual.heating_kwh * MONTHLY_HDD_FACTORS[month]
                           * ((MonthUnit \div AnnualUnit) \div 100)
        month_total   == month_cooling + month_heating
        primary       == IF month_cooling > month_heating /\ month_cooling > month_base
                             THEN "cooling"
                         ELSE IF month_heating > month_cooling /\ month_heating > month_base
                             THEN "heating"
                         ELSE "base"
    IN  [ month        |-> month,
          kwh          |-> Round(month_total * 10, MonthUnit),
          cost         |-> Round(month_total * rate, MonthUnit),
          primary_load |-> primary ]

\* The comparisons made with >= : a tie goes to cooling, then to heating.
MonthlyEnergy_ties_to_cooling(month, annual, rate) ==
    LET month_base    == annual.base_kwh * ((MonthUnit \div AnnualUnit) \div 12)
        month_cooling == annual.cooling_kwh * MONTHLY_CDD_FACTORS[month]
                           * ((MonthUnit \div AnnualUnit) \div 100)
        month_heating == annual.heating_kwh * MONTHLY_HDD_FACTORS[month]
                           * ((MonthUnit \div AnnualUnit) \div 100)
        month_total   == month_base + month_cooling + month_heating
        primary       == IF month_cooling >= month_heating /\ month_cooling >= month_base
                             THEN "cooling"
                         ELSE IF month_heating >= month_cooling /\ month_heating >= month_base
                             THEN "heating"
                         ELSE "base"
    IN  [ month        |-> month,
          kwh          |-> Round(month_total * 10, MonthUnit),
          cost         |-> Round(month_total * rate, MonthUnit),
          primary_load |-> primary ]

\* Cooling and heating compared with each other only, not with the base.
MonthlyEnergy_ignores_base(month, annual, rate) ==
    LET month_base    == annual.base_kwh * ((MonthUnit \div AnnualUnit) \div 12)
        month_cooling == annual.cooling_kwh * MONTHLY_CDD_FACTORS[month]
                           * ((MonthUnit \div AnnualUnit) \div 100)
        month_heating == annual.heating_kwh * MONTHLY_HDD_FACTORS[month]
                           * ((MonthUnit \div AnnualUnit) \div 100)
        month_total   == month_base + month_cooling + month_heating
        primary       == IF month_cooling > month_heating
                             THEN "cooling"
                         ELSE IF month_heating > month_cooling
                             THEN "heating"
                         ELSE "base"
    IN  [ month        |-> month,
          kwh          |-> Round(month_total * 10, MonthUnit),
          cost         |-> Round(month_total * rate, MonthUnit),
          primary_load |-> primary ]

\* The heating load spread over the months by the cooling weights.
MonthlyEnergy_heating_by_cooling_weight(month, annual, rate) ==
    LET month_base    == annual.base_kwh * ((MonthUnit \div AnnualUnit) \div 12)
        month_cooling == annual.cooling_kwh * MONTHLY_CDD_FACTORS[month]
                           * ((MonthUnit \div AnnualUnit) \div 100)
        month_heating == annual.heating_kwh * MONTHLY_CDD_FACTORS[month]
                           * ((MonthUnit \div AnnualUnit) \div 100)
        month_total   == month_base + month_cooling + month_heating
        primary       == IF month_cooling > month_heating /\ month_cooling > month_base
                             THEN "cooling"
                         ELSE IF month_heating > month_cooling /\ month_heating > month_base
                             THEN "heating"
                         ELSE "base"
    IN  [ month        |-> month,
          kwh          |-> Round(month_total * 10, MonthUnit),
          cost         |-> Round(month_total * rate, MonthUnit),
          primary_load |-> primary ]

\* one row of the monthly breakdown; loads in month units
MonthlyEnergy(month, annual, rate) ==
    LET month_base    == annual.base_kwh * ((MonthUnit \div AnnualUnit) \div 12)
        month_cooling == annual.cooling_kwh * MONTHLY_CDD_FACTORS[month]
                           * ((MonthUnit \div AnnualUnit) \div 100)
        month_heating == annual.heating_kwh * MONTHLY_HDD_FACTORS[month]
                           * ((MonthUnit \div AnnualUnit) \div 100)
        month_total   == month_base + month_cooling + month_heating
        primary       == IF month_cooling > month_heating /\ month_cooling > month_base
                             THEN "cooling"
                         ELSE IF month_heating > month_cooling /\ month_heating > month_base
                             THEN "heating"
                         ELSE "base"
    IN  [ month        |-> month,
          kwh          |-> Round(month_total * 10, MonthUnit),
          cost         |-> Round(month_total * rate, MonthUnit),
          primary_load |-> primary ]

\* The months taken in the alphabetical order of their names.
monthly_breakdown_sorted(annual, rate) ==
    LET sorted == << "April", "August", "December", "February", "January", "July",
                     "June", "March", "May", "November", "October", "September" >>
    IN  [ i \in 1..Len(sorted) |-> MonthlyEnergy(sorted[i], annual, rate) ]

\* the 12 rows, in the order of MONTH_NAMES
monthly_breakdown(annual, rate) ==
    [ i \in 1..Len(MONTH_NAMES) |-> MonthlyEnergy(MONTH_NAMES[i], annual, rate) ]

\* The branch taken for production >= 0 instead of > 0.
writes_offset_nonnegative(solar_potential) ==
    /\ solar_potential # None
    /\ solar_potential[1].annual_production_kwh >= 0

\* the guard of the solar offset branch
writes_offset(solar_potential) ==
    /\ solar_potential # None
    /\ solar_potential[1].annual_production_kwh > 0

\* The ratio rounded to a whole percent.
offset_pct_whole(production, total_annual) ==
    10 * Round(production * AnnualUnit * 100, total_annual)

\* The ratio rounded without the multiplication by 100.
offset_pct_fraction(production, total_annual) ==
    Round(production * AnnualUnit * 10, total_annual)

\* round((production / total_annual) * 100, 1), in tenths of a percent
offset_pct(production, total_annual) ==
    Round(production * AnnualUnit * 1000, total_annual)

\* The production divided by the annual cooling load.
offset_denominator_cooling(annual) == annual.cooling_kwh

\* the divisor of the solar offset
offset_denominator(annual) == annual.total_annual

\* The percentage stored over the production as well as in offset_pct.
solar_offset_overwrites_production(solar_potential, annual) ==
    IF writes_offset(solar_potential)
    THEN IF offset_denominator(annual) = 0
         THEN [ exc |-> "ZeroDivisionError", solar |-> solar_potential ]
         ELSE LET pct == offset_pct(solar_potential[1].annual_production_kwh,
                                    offset_denominator(annual))
              IN  [ exc |-> "none",
                    solar |-> Some([ solar_potential[1] EXCEPT
                                       !.offset_pct = pct,
                                       !.annual_production_kwh = pct ]) ]
    ELSE [ exc |-> "none", solar |-> solar_potential ]

\* the solar offset step: the exception it raises, if any, and the solar
\* object as it leaves the step
solar_offset(solar_potential, annual) ==
    IF writes_offset(solar_potential)
    THEN IF offset_denominator(annual) = 0
         THEN [ exc |-> "ZeroDivisionError", solar |-> solar_potential ]
         ELSE [ exc |-> "none",
                solar |-> Some([ solar_potential[1] EXCEPT !.offset_pct =
                            offset_pct(solar_potential[1].annual_production_kwh,
                                       offset_denominator(annual)) ]) ]
    ELSE [ exc |-> "none", solar |-> solar_potential ]

\* The degree days reported under each other's name.
EnergyAssumptions_swapped(zone_id, zone, efficiency, home_sqft, cooling_sqft) ==
    [ climate_zone     |-> zone_id,
      cdd              |-> zone.hdd,
      hdd              |-> zone.cdd,
      rate_per_kwh     |-> zone.rate,
      efficiency_level |-> efficiency,
      home_sqft        |-> home_sqft,
      cooling_sqft     |-> cooling_sqft ]

\* the assumptions block of the result
EnergyAssumptions(zone_id, zone, efficiency, home_sqft, cooling_sqft) ==
    [ climate_zone     |-> zone_id,
      cdd              |-> zone.cdd,
      hdd              |-> zone.hdd,
      rate_per_kwh     |-> zone.rate,
      efficiency_level |-> efficiency,
      home_sqft        |-> home_sqft,
      cooling_sqft     |-> cooling_sqft ]

\* the module-level tables as the process holds them: estimate looks the
\* zone and the factors up in these dicts each time it runs
ModuleTables ==
    [ CLIMATE_ZONES |-> CLIMATE_ZONES, EFFICIENCY_FACTORS |-> EFFICIENCY_FACTORS ]

\* The zone's entry rewritten through the alias with the tier-adjusted
\* degree days.
module_tables_after_adjusting_zone(T, zone_id, efficiency) ==
    [ T EXCEPT !.CLIMATE_ZONES[zone_id].cdd =
                   (@ * T.EFFICIENCY_FACTORS[efficiency].cooling) \div 100 ]

\* The factors looked up kept as the default tier's.
module_tables_after_caching_factors(T, zone_id, efficiency) ==
    [ T EXCEPT !.EFFICIENCY_FACTORS["standard"] = T.EFFICIENCY_FACTORS[efficiency] ]

\* the tables after a call that looked up zone_id and efficiency: zone and
\* factors alias the dicts' entries and are only read
module_tables_after(T, zone_id, efficiency) == T

\* the body of estimate from the monthly breakdown on, given the zone's
\* values as they were read and the annual loads
estimate_rest(home_sqft, cooling_sqft, zone_id, zone, efficiency, solar_potential, annual) ==
    LET monthly == monthly_breakdown(annual, zone.rate)
        offset  == solar_offset(solar_potential, annual)
        logrec  == Some([ home_sqft    |-> home_sqft,
                          zone_id      |-> zone_id,
                          base_kwh     |-> annual.base_kwh,
                          cooling_kwh  |-> annual.cooling_kwh,
                          heating_kwh  |-> annual.heating_kwh,
                          total_annual |-> annual.total_annual ])
    IN  IF offset.exc # "none"
        THEN [ exc |-> offset.exc, logged |-> logrec, solar |-> offset.solar,
               result |-> None ]
        ELSE [ exc |-> "none", logged |-> logrec, solar |-> offset.solar,
               result |-> Some(
                 [ annual_total_kwh   |-> Round(annual.total_annual * 10, AnnualUnit),
                   annual_total_cost  |-> Round(annual.total_annual * zone.rate, AnnualUnit),
                   annual_cooling_kwh |-> Round(annual.cooling_kwh * 10, AnnualUnit),
                   annual_heating_kwh |-> Round(annual.heating_kwh * 10, AnnualUnit),
                   annual_base_kwh    |-> Round(annual.base_kwh * 10, AnnualUnit),
                   monthly            |-> monthly,
                   solar_potential    |-> offset.solar,
                   assumptions        |->
                     EnergyAssumptions(zone_id, zone, efficiency,
                                       home_sqft, cooling_sqft) ]) ]

\* the same with the zone looked up in the tables
estimate_from(home_sqft, cooling_sqft, zone_id, efficiency, solar_potential, annual) ==
    estimate_rest(home_sqft, cooling_sqft, zone_id, tables.CLIMATE_ZONES[zone_id],
                  efficiency, solar_potential, annual)

\* The annual total reduced by the solar production, as the docstring's
\* "Total Annual = Base + Cooling + Heating - Solar_Offset".
estimate_net_of_solar(home_sqft, cooling_sqft, lat, efficiency, solar_potential) ==
    LET cooled  == IF cooling_sqft = None THEN home_sqft ELSE cooling_sqft[1]
        zone_id == get_climate_zone(lat)
        gross   == annual_loads(home_sqft, cooled, tables.CLIMATE_ZONES[zone_id],
                                tables.EFFICIENCY_FACTORS[efficiency])
        net     == IF writes_offset(solar_potential)
                   THEN [ gross EXCEPT !.total_annual =
                            @ - solar_potential[1].annual_production_kwh * AnnualUnit ]
                   ELSE gross
    IN  IF efficiency \notin DOMAIN tables.EFFICIENCY_FACTORS
        THEN [ exc |-> "KeyError", logged |-> None, solar |-> solar_potential,
               result |-> None ]
        ELSE estimate_from(home_sqft, cooled, zone_id, efficiency, solar_potential, net)

\* The factors looked up with a default: an unknown tier is computed as
\* STANDARD.
estimate_default_tier(home_sqft, cooling_sqft, lat, efficiency, solar_potential) ==
    LET cooled  == IF cooling_sqft = None THEN home_sqft ELSE cooling_sqft[1]
        zone_id == get_climate_zone(lat)
        tier    == IF efficiency \in DOMAIN tables.EFFICIENCY_FACTORS
                   THEN efficiency ELSE "standard"
    IN  estimate_from(home_sqft, cooled, zone_id, tier, solar_potential,
            annual_loads(home_sqft, cooled, tables.CLIMATE_ZONES[zone_id],
                         tables.EFFICIENCY_FACTORS[tier]))

\* An absent cooled area taken as 0 instead of the floor area.
estimate_absent_as_zero(home_sqft, cooling_sqft, lat, efficiency, solar_potential) ==
    LET cooled  == IF cooling_sqft = None THEN 0 ELSE cooling_sqft[1]
        zone_id == get_climate_zone(lat)
    IN  IF efficiency \notin DOMAIN tables.EFFICIENCY_FACTORS
        THEN [ exc |-> "KeyError", logged |-> None, solar |-> solar_potential,
               result |-> None ]
        ELSE estimate_from(home_sqft, cooled, zone_id, efficiency, solar_potential,
                 annual_loads(home_sqft, cooled, tables.CLIMATE_ZONES[zone_id],
                              tables.EFFICIENCY_FACTORS[efficiency]))

\* The cooled area defaulted as the HTTP handler does it (cooling_sqft or
\* home_sqft): 0 is replaced by the floor area like an absent value.
estimate_zero_as_absent(home_sqft, cooling_sqft, lat, efficiency, solar_potential) ==
    LET cooled  == IF cooling_sqft = None \/ cooling_sqft[1] = 0
                   THEN home_sqft ELSE cooling_sqft[1]
        zone_id == get_climate_zone(lat)
    IN  IF efficiency \notin DOMAIN tables.EFFICIENCY_FACTORS
        THEN [ exc |-> "KeyError", logged |-> None, solar |-> solar_potential,
               result |-> None ]
        ELSE estimate_from(home_sqft, cooled, zone_id, efficiency, solar_potential,
                 annual_loads(home_sqft, cooled, tables.CLIMATE_ZONES[zone_id],
                              tables.EFFICIENCY_FACTORS[efficiency]))

\* EnergyService.estimate: the exception raised ("none" when it returns), the
\* values it logged, the caller's solar object afterwards, and the result
estimate(home_sqft, cooling_sqft, lat, efficiency, solar_potential) ==
    LET cooled  == IF cooling_sqft = None THEN home_sqft ELSE cooling_sqft[1]
        zone_id == get_climate_zone(lat)
    IN  IF efficiency \notin DOMAIN tables.EFFICIENCY_FACTORS
        THEN [ exc |-> "KeyError", logged |-> None, solar |-> solar_potential,
               result |-> None ]
        ELSE estimate_from(home_sqft, cooled, zone_id, efficiency, solar_potential,
                 annual_loads(home_sqft, cooled, tables.CLIMATE_ZONES[zone_id],
                              tables.EFFICIENCY_FACTORS[efficiency]))

----------------------------------------------------------------------------
(* The calls tried *)

\* areas up to 2000 sqft and productions up to MaxProduction keep every
\* intermediate product within 32-bit integers
HomeSqfts == {0, 1, 600, 1800, 2000}

CoolingSqfts == {None, Some(-2400), Some(0), Some(1000), Some(2000)}

Latitudes == {-MaxLat10, 257, 264, 265, 285, 304, 305, MaxLat10}

\* the three members of the enum and a value outside it
Tiers == EfficiencyLevel \cup {"high"}

Productions == {-100, 0, 1, 20, MaxProduction}

\* offset_pct of the solar object before the call, in tenths of a percent
PriorOffsets == {0, 125}

\* A solar object as the solar lookup's latitude-based estimate shapes it.
SolarPotential(production, offset) ==
    [ max_panels               |-> 34,
      annual_production_kwh    |-> production,
      offset_pct               |-> offset,
      estimated_savings_annual |-> production * 13,
      sunshine_hours_per_year  |-> 2062,
      roof_area_sqft           |-> 600 ]

SolarObjects ==
    {None} \cup { Some(SolarPotential(p, o)) : p \in Productions, o \in PriorOffsets }

----------------------------------------------------------------------------
(* The state machine: a caller has built the arguments, estimate runs *)

Init ==
    /\ pc = "called"
    /\ args \in [ home_sqft : HomeSqfts, cooling_sqft : CoolingSqfts,
                  lat : Latitudes, efficiency : Tiers ]
    /\ solar \in SolarObjects
    /\ logged = None
    /\ result = None
    /\ exc = "none"
    /\ request = None
    /\ response = None
    /\ tables = ModuleTables
    /\ history = << >>
    /\ api = None
    /\ calls = << >>

Estimate ==
    /\ pc = "called"
    /\ LET out == estimate(args.home_sqft, args.cooling_sqft, args.lat,
                           args.efficiency, solar)
       IN  /\ pc' = IF out.exc = "none" THEN "returned" ELSE "raised"
           /\ exc' = out.exc
           /\ logged' = out.logged
           /\ solar' = out.solar
           /\ result' = out.result
           /\ tables' = IF out.exc = "KeyError" THEN tables
                        ELSE module_tables_after(tables, get_climate_zone(args.lat),
                                                 args.efficiency)
    /\ UNCHANGED <<args, request, response, history, api, calls>>

Next == Estimate

Spec == Init /\ [][Next]_vars

----------------------------------------------------------------------------
(* SolarService: the lookup the HTTP handler awaits *)

\* dict.get(key, default)
Get(dict, key, default) == IF key \in DOMAIN dict THEN dict[key] ELSE default

\* the dict get_building_insights returns for an outcome of the API request:
\* {} after an HTTP error status or any other exception, the JSON otherwise.
\* A JSON value that may be null is carried as Some(v) or None; reading the
\* sunshine hours for the log entry off a null solarPotential raises inside
\* the try and so gives {} as well
get_building_insights(outcome) ==
    IF outcome.kind # "ok" THEN << >>
    ELSE IF Get(outcome.data, "solarPotential", Some(<< >>)) = None THEN << >>
    ELSE outcome.data

\* the latitude-based estimate used when the API gives no solar data
estimate_solar_potential(lat) ==
    LET raw            == 550 + (300 - lat)
        peak_sun_hours == IF raw < 450 THEN 450 ELSE IF raw > 650 THEN 650 ELSE raw
        max_panels     == (600 * 10) \div 175
        system_kw      == (max_panels * 400) \div 100
        annual_kwh     == (system_kw * peak_sun_hours * 365 * 8) \div (10 * 100 * 10)
    IN  [ max_panels               |-> max_panels,
          annual_production_kwh    |-> annual_kwh,
          offset_pct               |-> 0,
          estimated_savings_annual |-> annual_kwh * 13,
          sunshine_hours_per_year  |-> (peak_sun_hours * 365) \div 100,
          roof_area_sqft           |-> 600 ]

RECURSIVE RoofArea(_, _)
\* the area of the first n roof segments, in thousandths of a sqft
RoofArea(roof_segments, n) ==
    IF n = 0 THEN 0
    ELSE Get(Get(roof_segments[n], "stats", << >>), "areaMeters2", 0) * 10764
           + RoofArea(roof_segments, n - 1)

\* No fallback: an object of zeros when the API gives no solar data.
get_solar_potential_without_fallback(lat, outcome) ==
    LET data == get_building_insights(outcome)
    IN  IF DOMAIN data = {} \/ "solarPotential" \notin DOMAIN data
        THEN [ exc |-> "none",
               value |-> Some([ max_panels |-> 0, annual_production_kwh |-> 0,
                                offset_pct |-> 0, estimated_savings_annual |-> 0,
                                sunshine_hours_per_year |-> 0, roof_area_sqft |-> 0 ]) ]
        ELSE [ exc |-> "TypeError", value |-> None ]

\* SolarService.get_solar_potential for an outcome of the API request: the
\* exception it raises ("none" when it returns) and the object it returns.
\* A yearlyEnergyDcKwh of null cannot be multiplied: TypeError
get_solar_potential(lat, outcome) ==
    LET data == get_building_insights(outcome)
    IN  IF DOMAIN data = {} \/ "solarPotential" \notin DOMAIN data
        THEN [ exc |-> "none", value |-> Some(estimate_solar_potential(lat)) ]
        ELSE LET block         == data.solarPotential[1]
                 panel_configs == Get(block, "solarPanelConfigs", << >>)
                 max_config    == panel_configs[Len(panel_configs)]
                 max_panels    == IF panel_configs # << >>
                                  THEN Get(max_config, "panelsCount", 0) ELSE 0
                 annual_kwh    == IF panel_configs # << >>
                                  THEN Get(max_config, "yearlyEnergyDcKwh", Some(0))
                                  ELSE Some(0)
                 roof_segments == Get(block, "roofSegmentStats", << >>)
             IN  IF annual_kwh = None
                 THEN [ exc |-> "TypeError", value |-> None ]
                 ELSE [ exc |-> "none", value |-> Some(
                     [ max_panels               |-> max_panels,
                       annual_production_kwh    |-> (annual_kwh[1] * 85) \div 100,
                       offset_pct               |-> 0,
                       estimated_savings_annual |-> (annual_kwh[1] * 13 * 85) \div 100,
                       sunshine_hours_per_year  |->
                           Get(block, "maxSunshineHoursPerYear", 0),
                       roof_area_sqft           |->
                           RoofArea(roof_segments, Len(roof_segments)) \div 1000 ]) ]

----------------------------------------------------------------------------
(* The energy-estimate HTTP handler *)

\* the parameters of EnergyService.estimate, and those without a default
EstimateParameters ==
    {"home_sqft", "cooling_sqft", "lat", "efficiency", "solar_potential"}

EstimateRequired == {"home_sqft", "cooling_sqft", "lat"}

\* a call of estimate by keyword: Python raises TypeError when a keyword is
\* not a parameter or a parameter without default is not given
call_estimate(kwargs) ==
    IF \/ DOMAIN kwargs \ EstimateParameters # {}
       \/ EstimateRequired \ DOMAIN kwargs # {}
    THEN [ exc |-> "TypeError", logged |-> None,
           solar |-> Get(kwargs, "solar_potential", None), result |-> None ]
    ELSE estimate(kwargs.home_sqft, kwargs.cooling_sqft, kwargs.lat,
                  Get(kwargs, "efficiency", "standard"),
                  Get(kwargs, "solar_potential", None))

\* the keyword arguments the handler passes to estimate
handler_kwargs(req, solar_potential) ==
    [ cooled_sqft     |-> IF req.cooling_sqft = None \/ req.cooling_sqft[1] = 0
                          THEN req.home_sqft ELSE req.cooling_sqft[1],
      lat             |-> req.lat,
      lng             |-> req.lng,
      efficiency      |-> req.efficiency_level,
      solar_potential |-> solar_potential,
      include_solar   |-> req.include_solar ]

\* requests that pass the validation of EnergyEstimateRequest
Requests ==
    [ lat : {257, 285, 305}, lng : {-814}, home_sqft : {600, 2000},
      cooling_sqft : {None, Some(0), Some(1000)},
      efficiency_level : EfficiencyLevel, include_solar : BOOLEAN ]

\* outcomes of the request to the external solar API
ApiOutcomes ==
    { [kind |-> "http_error"],
      [kind |-> "exception"],
      [kind |-> "ok", data |-> << >>],
      [kind |-> "ok", data |-> [name |-> "buildings/1"]],
      [kind |-> "ok", data |-> [solarPotential |-> None]],
      [kind |-> "ok", data |-> [solarPotential |->
          Some([maxSunshineHoursPerYear |-> 1800])]],
      [kind |-> "ok", data |-> [solarPotential |-> Some(
          [ maxSunshineHoursPerYear |-> 1800,
            solarPanelConfigs |-> << [panelsCount |-> 20, yearlyEnergyDcKwh |-> None] >> ])]],
      [kind |-> "ok", data |-> [solarPotential |-> Some(
          [ maxSunshineHoursPerYear |-> 1800,
            solarPanelConfigs |-> << [panelsCount |-> 4, yearlyEnergyDcKwh |-> Some(2000)],
                                     [panelsCount |-> 20, yearlyEnergyDcKwh |-> Some(10000)] >>,
            roofSegmentStats |-> << [stats |-> [areaMeters2 |-> 250]],
                                    [stats |-> [areaMeters2 |-> 500]] >> ])]] }

\* An error response only for a failure of the estimator call; any other
\* exception leaves the handler and no response is built.
handler_response_estimator_only(exception, value) ==
    IF exception = "none" THEN Some([status_code |-> 200, body |-> value[1]])
    ELSE IF exception \in {"KeyError", "ZeroDivisionError"}
         THEN Some([status_code |-> 500, detail |-> exception])
    ELSE None

\* the handler's response: the value returned by the try block, or the HTTP
\* 500 its except clause raises, the detail carrying the exception's message
handler_response(exception, value) ==
    IF exception = "none" THEN Some([status_code |-> 200, body |-> value[1]])
    ELSE Some([status_code |-> 500, detail |-> exception])

HttpInit ==
    /\ pc = "received"
    /\ request \in { Some(r) : r \in Requests }
    /\ response = None
    /\ args = None
    /\ solar = None
    /\ logged = None
    /\ result = None
    /\ exc = "none"
    /\ tables = ModuleTables
    /\ history = << >>
    /\ api = None
    /\ calls = << >>

\* the handler up to the awaited solar lookup: the services are constructed
\* (reading the settings can fail), the external API answers or fails, and
\* the solar potential is obtained; an exception ends the handler
HandlerGetSolar ==
    /\ pc = "received"
    /\ \E settings_ok \in BOOLEAN, outcome \in ApiOutcomes :
         IF settings_ok
         THEN LET looked_up == get_solar_potential(request[1].lat, outcome)
              IN  /\ api' = Some(outcome)
                  /\ solar' = looked_up.value
                  /\ exc' = looked_up.exc
                  /\ IF looked_up.exc = "none"
                     THEN pc' = "solar_obtained" /\ UNCHANGED response
                     ELSE /\ pc' = "responded"
                          /\ response' = handler_response(looked_up.exc, None)
         ELSE /\ exc' = "ValidationError"
              /\ response' = handler_response("ValidationError", None)
              /\ pc' = "responded"
              /\ UNCHANGED <<solar, api>>
    /\ UNCHANGED <<args, logged, result, request, tables, history, calls>>

\* the rest of the handler: estimate is called by keyword; its result is the
\* response, any exception becomes an HTTP 500
HandlerEstimate ==
    /\ pc = "solar_obtained"
    /\ LET out == call_estimate(handler_kwargs(request[1], solar))
       IN  /\ exc' = out.exc
           /\ logged' = out.logged
           /\ solar' = out.solar
           /\ result' = out.result
           /\ response' = handler_response(out.exc, out.result)
    /\ pc' = "responded"
    /\ UNCHANGED <<args, request, tables, history, api, calls>>

HttpNext == HandlerGetSolar \/ HandlerEstimate

HttpSpec == HttpInit /\ [][HttpNext]_vars

----------------------------------------------------------------------------
(* A session: one process makes several calls of estimate, one after the *)
(* other, over the same module-level tables; the caller keeps one solar   *)
(* object and passes it to some of the calls                              *)

MaxCalls == 3

SessionArgs ==
    [ home_sqft : {600, 2000}, cooling_sqft : {None},
      lat : {257, 305}, efficiency : {"standard", "poor"} ]

SessionInit ==
    /\ pc = "idle"
    /\ args = None
    /\ solar \in { Some(SolarPotential(p, 0)) : p \in {20, MaxProduction} }
    /\ logged = None
    /\ result = None
    /\ exc = "none"
    /\ request = None
    /\ response = None
    /\ tables = ModuleTables
    /\ history = << >>
    /\ api = None
    /\ calls = << >>

\* one more call of estimate, with or without the caller's solar object
SessionEstimate ==
    /\ pc \in {"idle", "returned", "raised"}
    /\ Len(history) < MaxCalls
    /\ \E a \in SessionArgs, solar_given \in BOOLEAN :
         LET out == estimate(a.home_sqft, a.cooling_sqft, a.lat, a.efficiency,
                             IF solar_given THEN solar ELSE None)
         IN  /\ args' = a
             /\ pc' = IF out.exc = "none" THEN "returned" ELSE "raised"
             /\ exc' = out.exc
             /\ logged' = out.logged
             /\ solar' = IF solar_given THEN out.solar ELSE solar
             /\ result' = out.result
             /\ tables' = IF out.exc = "KeyError" THEN tables
                          ELSE module_tables_after(tables, get_climate_zone(a.lat),
                                                   a.efficiency)
             /\ history' = Append(history,
                               [ args |-> a, solar_given |-> solar_given,
                                 exc |-> out.exc, result |-> out.result ])
    /\ UNCHANGED <<request, response, api, calls>>

SessionNext == SessionEstimate

SessionSpec == SessionInit /\ [][SessionNext]_vars

----------------------------------------------------------------------------
(* Concurrent invocations: several threads run estimate at once over the  *)
(* same module-level tables, each with its own arguments, its own locals  *)
(* and its own solar object or none; their steps interleave in any order  *)

MaxInvocations == 2

Invocations == 1..MaxInvocations

ConcurrentArgs ==
    [ home_sqft : {600, 2000}, cooling_sqft : {None},
      lat : {257, 305}, efficiency : {"standard", "poor"} ]

ConcurrentSolar == {None, Some(SolarPotential(20, 0))}

\* an invocation that has been called: `alone` is what the call returns when
\* it runs by itself from the initial tables
Invocation(a, s) ==
    [ pc |-> "called", args |-> a, solar |-> s,
      zone_id |-> "", zone |-> None, annual |-> None,
      exc |-> "none", result |-> None,
      alone |-> estimate(a.home_sqft, a.cooling_sqft, a.lat, a.efficiency, s) ]

ConcurrentInit ==
    /\ pc = "concurrent"
    /\ args = None
    /\ solar = None
    /\ logged = None
    /\ result = None
    /\ exc = "none"
    /\ request = None
    /\ response = None
    /\ tables = ModuleTables
    /\ history = << >>
    /\ api = None
    /\ calls \in [ Invocations ->
                     { Invocation(a, s) : a \in ConcurrentArgs, s \in ConcurrentSolar } ]

\* lines 79-90: the zone is resolved and its values are read into locals,
\* the tier's factors are looked up
ConcurrentLookup(i) ==
    /\ calls[i].pc = "called"
    /\ LET a       == calls[i].args
           zone_id == get_climate_zone(a.lat)
       IN  IF a.efficiency \notin DOMAIN tables.EFFICIENCY_FACTORS
           THEN /\ calls' = [calls EXCEPT ![i].pc = "raised", ![i].exc = "KeyError"]
                /\ UNCHANGED tables
           ELSE /\ calls' = [calls EXCEPT ![i].pc = "looked_up",
                                          ![i].zone_id = zone_id,
                                          ![i].zone = Some(tables.CLIMATE_ZONES[zone_id])]
                /\ tables' = module_tables_after(tables, zone_id, a.efficiency)
    /\ UNCHANGED <<pc, args, solar, logged, result, exc, request, response,
                   history, api>>

\* lines 92-102: the annual loads, from the locals and from the factors read
\* through the alias
ConcurrentAnnual(i) ==
    /\ calls[i].pc = "looked_up"
    /\ LET a      == calls[i].args
           cooled == IF a.cooling_sqft = None THEN a.home_sqft ELSE a.cooling_sqft[1]
       IN  calls' = [calls EXCEPT
                       ![i].pc = "computed",
                       ![i].annual = Some(annual_loads(a.home_sqft, cooled,
                                              calls[i].zone[1],
                                              tables.EFFICIENCY_FACTORS[a.efficiency]))]
    /\ UNCHANGED <<pc, args, solar, logged, result, exc, request, response,
                   tables, history, api>>

\* lines 104-152: the monthly breakdown, the offset written into the
\* invocation's own solar object, the result
ConcurrentFinish(i) ==
    /\ calls[i].pc = "computed"
    /\ LET a      == calls[i].args
           cooled == IF a.cooling_sqft = None THEN a.home_sqft ELSE a.cooling_sqft[1]
           out    == estimate_rest(a.home_sqft, cooled, calls[i].zone_id,
                                   calls[i].zone[1], a.efficiency, calls[i].solar,
                                   calls[i].annual[1])
       IN  calls' = [calls EXCEPT
                       ![i].pc = IF out.exc = "none" THEN "returned" ELSE "raised",
                       ![i].exc = out.exc,
                       ![i].solar = out.solar,
                       ![i].result = out.result]
    /\ UNCHANGED <<pc, args, solar, logged, result, exc, request, response,
                   tables, history, api>>

ConcurrentNext ==
    \E i \in Invocations :
        ConcurrentLookup(i) \/ ConcurrentAnnual(i) \/ ConcurrentFinish(i)

ConcurrentSpec == ConcurrentInit /\ [][ConcurrentNext]_vars

----------------------------------------------------------------------------
(* Vocabulary of the properties *)

ValidTier == args.efficiency \in EfficiencyLevel

\* the cooled area is absent or not negative
CooledWellFormed == args.cooling_sqft = None \/ args.cooling_sqft[1] >= 0

\* the cooled area the calculation uses
CooledUsed == IF args.cooling_sqft = None THEN args.home_sqft ELSE args.cooling_sqft[1]

PositiveProduction == solar # None /\ solar[1].annual_production_kwh > 0

\* what the same call returns when it is made with no solar object
WithoutSolar(efficiency) ==
    estimate(args.home_sqft, args.cooling_sqft, args.lat, efficiency, None)

TypeOK ==
    /\ pc \in {"called", "returned", "raised"}
    /\ exc \in {"none", "KeyError", "ZeroDivisionError"}
    /\ (pc = "returned") = (result # None)
    /\ (pc = "raised") = (exc # "none")

----------------------------------------------------------------------------
(* Properties *)

C2_SolarLowersTotal ==
    (pc = "returned" /\ PositiveProduction /\ args.home_sqft > 0 /\ CooledWellFormed) =>
        result[1].annual_total_kwh < WithoutSolar(args.efficiency).result[1].annual_total_kwh

C4_ZoneBrackets ==
    logged # None =>
        LET zone_id == logged[1].zone_id
        IN  /\ zone_id \in {"1A", "2A", "3A"}
            /\ (zone_id = "1A") = (args.lat < 265)
            /\ (zone_id = "2A") = (265 <= args.lat /\ args.lat < 305)
            /\ (zone_id = "3A") = (args.lat >= 305)

\* the boundary latitude 30.5 resolved to 3A
C4_Witness ==
    /\ logged # None
    /\ args.lat = 305
    /\ logged[1].zone_id = "3A"

\* the annual total returned for the call's areas and latitude at a tier
TotalAt(efficiency) == WithoutSolar(efficiency).result[1].annual_total_kwh

\* C5 as stated: for every floor area, cooled area and latitude the annual
\* total is strictly increasing from EFFICIENT to STANDARD to POOR.
C5_TiersIncreaseEverywhere ==
    (pc = "returned") =>
        /\ TotalAt("efficient") < TotalAt("standard")
        /\ TotalAt("standard") < TotalAt("poor")

\* C5 amended: for every floor area > 0, cooled area absent or >= 0, and
\* latitude, the annual total is strictly increasing across the tiers.
C5_TiersIncrease ==
    (pc = "returned" /\ args.home_sqft > 0 /\ CooledWellFormed) =>
        /\ result[1].annual_total_kwh = TotalAt(args.efficiency)
        /\ TotalAt("efficient") < TotalAt("standard")
        /\ TotalAt("standard") < TotalAt("poor")

\* a call at the middle tier returned a total strictly between the other two
C5_Witness ==
    /\ pc = "returned"
    /\ args.home_sqft > 0
    /\ CooledWellFormed
    /\ args.efficiency = "standard"
    /\ TotalAt("efficient") < result[1].annual_total_kwh
    /\ result[1].annual_total_kwh < TotalAt("poor")

\* o is x / d rounded to the nearest integer, whichever way a half goes
Nearest(o, x, d) ==
    IF d > 0 THEN 2 * (o * d - x) \in (-d)..d
    ELSE 2 * (o * d - x) \in d..(-d)

\* C6: given a solar object with production > 0, after estimate returns the
\* object's offset_pct is production / unrounded annual total * 100 rounded
\* to 1 decimal, and the result's solar block carries the same value.
C6_OffsetWritten ==
    (pc = "returned" /\ PositiveProduction) =>
        /\ Nearest(solar[1].offset_pct,
                   solar[1].annual_production_kwh * 1000 * AnnualUnit,
                   logged[1].total_annual)
        /\ result[1].solar_potential # None
        /\ result[1].solar_potential[1].offset_pct = solar[1].offset_pct

\* an offset that is not a whole percent replaced the offset the object had
C6_Witness ==
    /\ pc = "returned"
    /\ PositiveProduction
    /\ solar[1].offset_pct % 10 # 0
    /\ solar[1].offset_pct \notin PriorOffsets
    /\ result[1].solar_potential = solar

\* C7 as stated (for the calls with a floor area > 0 and a cooled area absent
\* or >= 0): with production > 0, however small, offset_pct is > 0 after
\* estimate returns.
C7_OffsetAlwaysPositive ==
    (pc = "returned" /\ PositiveProduction /\ args.home_sqft > 0 /\ CooledWellFormed) =>
        solar[1].offset_pct > 0

\* C7 amended: with production > 0, a floor area > 0 and a cooled area absent
\* or >= 0, offset_pct is never negative after estimate returns, and it is
\* > 0 whenever the production is at least 0.1% of the unrounded annual total.
C7_OffsetPositiveWhenVisible ==
    (pc = "returned" /\ PositiveProduction /\ args.home_sqft > 0 /\ CooledWellFormed) =>
        /\ solar[1].offset_pct >= 0
        /\ (solar[1].annual_production_kwh * 1000 * AnnualUnit >= logged[1].total_annual
               => solar[1].offset_pct > 0)

\* a production between 0.1% and 1% of the annual total gave an offset > 0
C7_Witness ==
    /\ pc = "returned"
    /\ PositiveProduction
    /\ args.home_sqft > 0
    /\ CooledWellFormed
    /\ solar[1].annual_production_kwh * 1000 * AnnualUnit >= logged[1].total_annual
    /\ solar[1].annual_production_kwh * 100 * AnnualUnit < logged[1].total_annual
    /\ solar[1].offset_pct > 0

\* C8: called with no solar object, or with one whose production is <= 0,
\* estimate (given a tier of the enum) raises nothing and writes no offset:
\* the result's solar block is absent in the first case, and in the second
\* the object, its offset_pct included, is as it was before the call.
C8_NoOffsetWithoutProduction ==
    [][ (pc = "called" /\ ValidTier /\ ~PositiveProduction) =>
            /\ pc' = "returned"
            /\ exc' = "none"
            /\ solar' = solar
            /\ result' # None
            /\ result'[1].solar_potential = solar
            /\ (solar = None => result'[1].solar_potential = None)
            /\ (solar # None => result'[1].solar_potential[1].offset_pct
                                    = solar[1].offset_pct) ]_vars

\* estimate returned for production <= 0 and the earlier, non-zero offset stands
C8_Witness ==
    /\ pc = "returned"
    /\ solar # None
    /\ solar[1].annual_production_kwh <= 0
    /\ solar[1].offset_pct = 125
    /\ result[1].solar_potential = solar

\* C9: for a floor area > 0, a cooled area absent or >= 0, any latitude, a
\* tier of the enum and any solar object or none, estimate returns a result
\* and raises nothing; no division by zero is reached.
C9_NeverFailsOnWellFormed ==
    (pc # "called" /\ args.home_sqft > 0 /\ CooledWellFormed /\ ValidTier) =>
        /\ pc = "returned"
        /\ exc = "none"
        /\ result # None
        /\ logged[1].total_annual > 0

\* the offset division was made in a call whose cooling load is 0
C9_Witness ==
    /\ pc = "returned"
    /\ args.home_sqft > 0
    /\ args.cooling_sqft = Some(0)
    /\ PositiveProduction
    /\ solar[1].offset_pct > 0

\* C10: with floor area 0 and the cooled area absent or 0, for every latitude
\* and tier of the enum and with or without a solar object of positive
\* production, estimate returns a result whose annual base load is 0.
C10_ZeroFloorAreaReturns ==
    (pc # "called" /\ args.home_sqft = 0 /\ ValidTier
        /\ args.cooling_sqft \in {None, Some(0)}) =>
        /\ pc = "returned"
        /\ result[1].annual_base_kwh = 0

\* C11: a call with a tier outside {EFFICIENT, STANDARD, POOR} raises before
\* anything is computed: no result is returned, nothing is logged, and the
\* solar object is not written.
C11_UnknownTierRejected ==
    [][ (pc = "called" /\ ~ValidTier) =>
            /\ pc' = "raised"
            /\ exc' = "KeyError"
            /\ result' = None
            /\ logged' = None
            /\ solar' = solar ]_vars

\* a call with the tier "high" raised KeyError
C11_Witness ==
    /\ pc = "raised"
    /\ exc = "KeyError"
    /\ args.efficiency = "high"
    /\ args.home_sqft > 0
    /\ result = None

\* the 12 calendar months
CalendarMonths ==
    { "January", "February", "March", "April", "May", "June", "July",
      "August", "September", "October", "November", "December" }

RECURSIVE SumOf(_, _)
\* the sum of the table's values over the keys
SumOf(table, keys) ==
    IF keys = {} THEN 0
    ELSE LET k == CHOOSE x \in keys : TRUE
         IN  table[k] + SumOf(table, keys \ {k})

\* C13: each of the two monthly weight tables has exactly the 12 calendar
\* months as keys and its 12 values sum to exactly 1.00, before and after
\* every call.
C13_WeightsSumToOne ==
    pc \in {"called", "returned", "raised"} =>
    /\ DOMAIN MONTHLY_CDD_FACTORS = CalendarMonths
    /\ DOMAIN MONTHLY_HDD_FACTORS = CalendarMonths
    /\ SumOf(MONTHLY_CDD_FACTORS, CalendarMonths) = 100
    /\ SumOf(MONTHLY_HDD_FACTORS, CalendarMonths) = 100

\* C18: when the cooled area is absent the floor area is used in its place:
\* the cooling load is computed from the floor area and the assumptions
\* report cooling_sqft equal to home_sqft.
C18_CooledDefaultsToFloor ==
    (pc = "returned" /\ args.cooling_sqft = None) =>
        LET a == result[1].assumptions
            l == logged[1]
        IN  /\ a.cooling_sqft = args.home_sqft
            /\ a.home_sqft = args.home_sqft
            /\ l.cooling_kwh * ((1000 * 100) \div AnnualUnit)
                   = args.home_sqft * CLIMATE_ZONES[l.zone_id].cdd
                       * EFFICIENCY_FACTORS[args.efficiency].cooling

\* floor 1800, cooled absent, latitude 28.5, STANDARD: cooled 1800
C18_Witness ==
    /\ pc = "returned"
    /\ args.cooling_sqft = None
    /\ args.home_sqft = 1800
    /\ args.lat = 285
    /\ args.efficiency = "standard"
    /\ result[1].assumptions.cooling_sqft = 1800
    /\ result[1].annual_cooling_kwh = 25200

\* the zone the claim's brackets give for a latitude
ZoneOfLatitude(lat) ==
    CHOOSE z \in {"1A", "2A", "3A"} :
        /\ (z = "1A") = (lat < 265)
        /\ (z = "3A") = (lat >= 305)

\* C19: the assumptions of every result report the zone resolved from the
\* latitude with that zone's CDD, HDD and rate, the tier passed in and the
\* floor and cooled areas used; the annual figures are computed from these.
C19_AssumptionsReportInputs ==
    pc = "returned" =>
        LET a == result[1].assumptions
            l == logged[1]
            z == CLIMATE_ZONES[ZoneOfLatitude(args.lat)]
            f == EFFICIENCY_FACTORS[a.efficiency_level]
        IN  /\ a.climate_zone = ZoneOfLatitude(args.lat)
            /\ a.cdd = z.cdd
            /\ a.hdd = z.hdd
            /\ a.rate_per_kwh = z.rate
            /\ a.efficiency_level = args.efficiency
            /\ a.home_sqft = args.home_sqft
            /\ a.cooling_sqft = CooledUsed
            /\ l.base_kwh * 10 = a.home_sqft * f.base * AnnualUnit
            /\ l.cooling_kwh * ((1000 * 100) \div AnnualUnit)
                   = a.cooling_sqft * a.cdd * f.cooling
            /\ l.heating_kwh * ((1000 * 100) \div AnnualUnit)
                   = a.home_sqft * a.hdd * f.heating
            /\ Nearest(result[1].annual_total_cost,
                       l.total_annual * a.rate_per_kwh, AnnualUnit)

\* a result for the zone 2A with a cooled area other than the floor area
C19_Witness ==
    /\ pc = "returned"
    /\ args.lat = 285
    /\ result[1].assumptions.climate_zone = "2A"
    /\ result[1].assumptions.cdd = 2800
    /\ result[1].assumptions.hdd = 1200
    /\ result[1].assumptions.rate_per_kwh = 13
    /\ result[1].assumptions.efficiency_level = "poor"
    /\ result[1].assumptions.cooling_sqft = 1000
    /\ result[1].assumptions.home_sqft = 2000

\* smallest floor area the request model admits
MinHomeSqft == 500

RECURSIVE SumKwh(_, _)
\* the sum of the kwh of the first n monthly rows
SumKwh(monthly, n) == IF n = 0 THEN 0 ELSE monthly[n].kwh + SumKwh(monthly, n - 1)

\* the 12 monthly kWh sum to within 5% of the annual total kWh
MonthlySumWithinFivePercent ==
    LET sum    == SumKwh(result[1].monthly, Len(result[1].monthly))
        annual == result[1].annual_total_kwh
        diff   == IF sum >= annual THEN sum - annual ELSE annual - sum
    IN  diff * 100 < 5 * annual

\* C14 as stated: for every floor area > 0 and cooled area >= 0 the sum of
\* the 12 monthly kWh differs from the annual total kWh by less than 5%.
C14_MonthlySumNearAnnualEverywhere ==
    (pc = "returned" /\ args.home_sqft > 0 /\ CooledWellFormed) =>
        MonthlySumWithinFivePercent

\* C14 amended: the same for every floor area of at least 500 sqft.
C14_MonthlySumNearAnnual ==
    (pc = "returned" /\ args.home_sqft >= MinHomeSqft /\ CooledWellFormed) =>
        MonthlySumWithinFivePercent

\* a result whose monthly kWh sum to more than the annual total, within 5%
C14_Witness ==
    /\ pc = "returned"
    /\ args.home_sqft >= MinHomeSqft
    /\ CooledWellFormed
    /\ SumKwh(result[1].monthly, 12) > result[1].annual_total_kwh
    /\ MonthlySumWithinFivePercent

\* C15: every result has exactly 12 monthly entries, January to December in
\* calendar order, each month once, each primary_load one of base, cooling,
\* heating.
C15_TwelveMonthsInOrder ==
    pc = "returned" =>
        LET monthly  == result[1].monthly
            calendar == << "January", "February", "March", "April", "May", "June",
                           "July", "August", "September", "October", "November",
                           "December" >>
        IN  /\ Len(monthly) = 12
            /\ \A i \in 1..12 :
                 /\ monthly[i].month = calendar[i]
                 /\ monthly[i].primary_load \in {"base", "cooling", "heating"}
            /\ \A i, j \in 1..12 : monthly[i].month = monthly[j].month => i = j

\* a result whose rows carry two different categories
C15_Witness ==
    /\ pc = "returned"
    /\ Len(result[1].monthly) = 12
    /\ result[1].monthly[1].month = "January"
    /\ result[1].monthly[1].primary_load = "base"
    /\ result[1].monthly[7].month = "July"
    /\ result[1].monthly[7].primary_load = "cooling"
    /\ result[1].monthly[12].month = "December"

\* the month's loads before rounding, each times 300:
\* base / 12, cooling * cooling weight, heating * heating weight
BaseOfMonth == logged[1].base_kwh * (300 \div 12)

CoolingOfMonth(month) ==
    logged[1].cooling_kwh * MONTHLY_CDD_FACTORS[month] * (300 \div 100)

HeatingOfMonth(month) ==
    logged[1].heating_kwh * MONTHLY_HDD_FACTORS[month] * (300 \div 100)

\* C16: a month is cooling exactly when its cooling kWh is strictly greater
\* than both its heating and its base kWh, heating exactly when its heating
\* kWh is strictly greater than both its cooling and its base kWh, and base
\* in every other case, every tie included.
C16_PrimaryLoadClassification ==
    pc = "returned" =>
        \A i \in 1..Len(result[1].monthly) :
            LET row == result[1].monthly[i]
                b   == BaseOfMonth
                c   == CoolingOfMonth(row.month)
                h   == HeatingOfMonth(row.month)
            IN  /\ (row.primary_load = "cooling") = (c > h /\ c > b)
                /\ (row.primary_load = "heating") = (h > c /\ h > b)
                /\ (row.primary_load = "base")
                      = (~(c > h /\ c > b) /\ ~(h > c /\ h > b))

\* one result with a cooling month, a month whose cooling and heating tie
\* below the base, and a month whose heating exceeds its cooling below the base
C16_Witness ==
    /\ pc = "returned"
    /\ result[1].monthly[7].primary_load = "cooling"
    /\ CoolingOfMonth("February") = HeatingOfMonth("February")
    /\ CoolingOfMonth("February") > 0
    /\ result[1].monthly[2].primary_load = "base"
    /\ HeatingOfMonth("January") > CoolingOfMonth("January")
    /\ result[1].monthly[1].primary_load = "base"

\* C17: for floor area > 0 and cooled area >= 0, the category a month is
\* given is one whose kWh is the largest of the three in that month.
C17_PrimaryLoadIsLargest ==
    (pc = "returned" /\ args.home_sqft > 0 /\ CooledWellFormed) =>
        \A i \in 1..Len(result[1].monthly) :
            LET row == result[1].monthly[i]
                b   == BaseOfMonth
                c   == CoolingOfMonth(row.month)
                h   == HeatingOfMonth(row.month)
                own == CASE row.primary_load = "cooling" -> c
                         [] row.primary_load = "heating" -> h
                         [] OTHER -> b
            IN  own >= b /\ own >= c /\ own >= h

\* a month named base although its heating exceeds its cooling, and a month
\* named cooling, in a call with a floor area > 0
C17_Witness ==
    /\ pc = "returned"
    /\ args.home_sqft > 0
    /\ CooledWellFormed
    /\ HeatingOfMonth("January") > CoolingOfMonth("January")
    /\ result[1].monthly[1].primary_load = "base"
    /\ result[1].monthly[7].primary_load = "cooling"

\* C12: for every request that passes validation, once the handler has
\* obtained the solar potential it invokes the estimator and responds with
\* the estimator's result, a successful response.
C12_HandlerRespondsWithResult ==
    (pc = "responded" /\ solar # None) =>
        /\ exc = "none"
        /\ result # None
        /\ response # None
        /\ response[1].status_code = 200
        /\ response[1].body = result[1]

\* C20: estimate is deterministic: two calls of a session with identical
\* inputs and no solar object return identical results, whatever calls were
\* made before, between and after them.
C20_Deterministic ==
    \A i, j \in DOMAIN history :
        ( /\ history[i].args = history[j].args
          /\ ~history[i].solar_given
          /\ ~history[j].solar_given )
        => /\ history[i].exc = history[j].exc
           /\ history[i].result = history[j].result

\* two returned calls without solar object and with the same inputs, and
\* between them a call that was given the solar object and wrote its offset
C20_Witness ==
    /\ Len(history) = 3
    /\ history[1].args = history[3].args
    /\ ~history[1].solar_given /\ ~history[3].solar_given
    /\ history[1].result # None /\ history[3].result # None
    /\ history[2].solar_given
    /\ history[2].args.lat = history[1].args.lat
    /\ history[2].result # None
    /\ history[2].result[1].solar_potential[1].offset_pct > 0

\* C24: for every month, before rounding, the month's base is the annual
\* base / 12, its cooling the annual cooling x the month's cooling weight,
\* its heating the annual heating x the month's heating weight; the month's
\* kWh is the sum of the three and its cost that sum x the zone's rate: the
\* kWh and the cost of every row are these values rounded to 1 and 2 decimals.
C24_MonthlyFormulas ==
    pc = "returned" =>
        \A i \in 1..Len(result[1].monthly) :
            LET row   == result[1].monthly[i]
                total == BaseOfMonth + CoolingOfMonth(MONTH_NAMES[i])
                           + HeatingOfMonth(MONTH_NAMES[i])
                rate  == CLIMATE_ZONES[logged[1].zone_id].rate
            IN  /\ Nearest(row.kwh, total * 10, MonthUnit)
                /\ Nearest(row.cost, total * rate, MonthUnit)

\* a result with base, cooling and heating loads above 0, whose January and
\* July differ in kWh and in cost
C24_Witness ==
    /\ pc = "returned"
    /\ logged[1].base_kwh > 0
    /\ logged[1].cooling_kwh > 0
    /\ logged[1].heating_kwh > 0
    /\ result[1].monthly[1].kwh > 0
    /\ result[1].monthly[1].kwh # result[1].monthly[7].kwh
    /\ result[1].monthly[1].cost # result[1].monthly[7].cost

\* C23: across the zones in the order increasing latitude selects them
\* (1A, 2A, 3A) cooling degree days do not increase and heating degree days
\* do not decrease: for any two latitudes a <= b, CDD(zone(a)) >= CDD(zone(b))
\* and HDD(zone(a)) <= HDD(zone(b)). Stated of the degree days a call at
\* latitude a reports against those of every latitude b.
C23_DegreeDaysMonotone ==
    pc = "returned" =>
        \A b \in Latitudes :
            LET mine  == result[1].assumptions
                other == CLIMATE_ZONES[get_climate_zone(b)]
            IN  /\ args.lat <= b => (mine.cdd >= other.cdd /\ mine.hdd <= other.hdd)
                /\ b <= args.lat => (other.cdd >= mine.cdd /\ other.hdd <= mine.hdd)

\* a call just below the first bracket boundary: the latitude just above it
\* has fewer cooling and more heating degree days
C23_Witness ==
    /\ pc = "returned"
    /\ args.lat = 264
    /\ result[1].assumptions.cdd > CLIMATE_ZONES[get_climate_zone(265)].cdd
    /\ result[1].assumptions.hdd < CLIMATE_ZONES[get_climate_zone(265)].hdd
    /\ CLIMATE_ZONES[get_climate_zone(304)].cdd > CLIMATE_ZONES[get_climate_zone(305)].cdd

\* C22: the only mutation estimate performs on a supplied solar object is
\* writing offset_pct: production, savings, panel count, sunshine hours and
\* roof area are after the call what they were before it; and nothing else
\* that outlives the call is changed: not the caller's arguments, not the
\* module's tables.
C22_OnlyOffsetWritten ==
    [][ pc = "called" =>
            /\ (solar = None) = (solar' = None)
            /\ solar # None =>
                 /\ DOMAIN solar'[1] = DOMAIN solar[1]
                 /\ \A field \in DOMAIN solar[1] \ {"offset_pct"} :
                        solar'[1][field] = solar[1][field]
            /\ args' = args
            /\ tables' = tables ]_vars

\* a call has written an offset_pct that the object did not carry before
C22_Witness ==
    /\ pc = "returned"
    /\ solar # None
    /\ solar[1].annual_production_kwh > 0
    /\ solar[1].offset_pct \notin PriorOffsets
    /\ solar[1].estimated_savings_annual = solar[1].annual_production_kwh * 13
    /\ tables = ModuleTables

\* C27: for every floor area > 0, every cooled area, every latitude and
\* every tier, no month is classified heating: the heating load of every
\* month, the 0.25-weight months included, stays below the month's base load.
C27_NeverHeating ==
    (pc = "returned" /\ args.home_sqft > 0) =>
        \A i \in 1..Len(result[1].monthly) :
            /\ result[1].monthly[i].primary_load # "heating"
            /\ HeatingOfMonth(MONTH_NAMES[i]) < BaseOfMonth

\* the case nearest to the heating branch: zone 3A, tier POOR, a cooled area
\* below 0, January's heating above its cooling and still below its base
C27_Witness ==
    /\ pc = "returned"
    /\ args.home_sqft > 0
    /\ args.efficiency = "poor"
    /\ result[1].assumptions.climate_zone = "3A"
    /\ args.cooling_sqft # None
    /\ args.cooling_sqft[1] < 0
    /\ HeatingOfMonth("January") > CoolingOfMonth("January")
    /\ 2 * HeatingOfMonth("January") > BaseOfMonth
    /\ result[1].monthly[1].primary_load = "base"

RECURSIVE SumUnrounded(_)
\* the sum of the kWh of the first n months before rounding, times 300
SumUnrounded(n) ==
    IF n = 0 THEN 0
    ELSE BaseOfMonth + CoolingOfMonth(MONTH_NAMES[n]) + HeatingOfMonth(MONTH_NAMES[n])
           + SumUnrounded(n - 1)

\* the unrounded monthly sum is base + 1.01 x cooling + heating, and the 12
\* rounded rows sum to it within their 12 roundings of at most 0.05 kWh each
MonthlySumIdentity ==
    LET l == logged[1]
    IN  /\ SumUnrounded(12) = 300 * (l.base_kwh + l.heating_kwh) + 303 * l.cooling_kwh
        /\ SumUnrounded(12) - 300 * l.total_annual = 3 * l.cooling_kwh
        /\ LET rows == SumKwh(result[1].monthly, 12) * (MonthUnit \div 10)
           IN  rows - SumUnrounded(12) \in (-12 * (MonthUnit \div 20))..(12 * (MonthUnit \div 20))

\* the unrounded monthly sum is not below the annual total and equals it
\* only when the annual cooling load is 0
MonthlySumNotBelowAnnual ==
    /\ SumUnrounded(12) >= 300 * logged[1].total_annual
    /\ (SumUnrounded(12) = 300 * logged[1].total_annual) = (logged[1].cooling_kwh = 0)

HandlerCooled ==
    handler_kwargs([ lat |-> args.lat, lng |-> -814, home_sqft |-> args.home_sqft,
                     cooling_sqft |-> args.cooling_sqft,
                     efficiency_level |-> args.efficiency, include_solar |-> FALSE ],
                   solar).cooled_sqft

\* C29: estimate substitutes the floor area for the cooled area only when
\* the cooled area is absent: a cooled area of 0 is used as given, the annual
\* cooling load is 0 and the assumptions report cooling_sqft = 0; the HTTP
\* handler's own defaulting replaces a cooled area of 0, like an absent one,
\* by the floor area.
C29_ZeroCooledUsedAsGiven ==
    pc = "returned" =>
        LET a == result[1].assumptions
        IN  /\ args.cooling_sqft = None =>
                 (a.cooling_sqft = args.home_sqft /\ HandlerCooled = args.home_sqft)
            /\ args.cooling_sqft # None => a.cooling_sqft = args.cooling_sqft[1]
            /\ args.cooling_sqft = Some(0) =>
                 /\ logged[1].cooling_kwh = 0
                 /\ result[1].annual_cooling_kwh = 0
                 /\ a.cooling_sqft = 0
                 /\ HandlerCooled = args.home_sqft
            /\ (args.cooling_sqft # None /\ args.cooling_sqft # Some(0)) =>
                 HandlerCooled = args.cooling_sqft[1]

\* a call with cooled area 0 and a floor area above 0: no cooling load,
\* where the handler's defaulting gives the floor area
C29_Witness ==
    /\ pc = "returned"
    /\ args.cooling_sqft = Some(0)
    /\ args.home_sqft = 600
    /\ result[1].annual_cooling_kwh = 0
    /\ result[1].assumptions.cooling_sqft = 0
    /\ HandlerCooled = 600

\* C25: any exception raised inside the handler, by constructing the
\* services, by the solar lookup or by the estimator call, is converted into
\* an HTTP 500 response whose detail carries the exception's message; none
\* leaves the handler unconverted and no partial result is returned.
C25_ExceptionsBecome500 ==
    exc # "none" =>
        /\ pc = "responded"
        /\ response # None
        /\ response[1].status_code = 500
        /\ response[1].detail = exc
        /\ "body" \notin DOMAIN response[1]
        /\ result = None

\* the solar lookup raised on the API's data, after the services were
\* constructed and before the estimator was called
C25_Witness ==
    /\ pc = "responded"
    /\ api # None
    /\ api[1].kind = "ok"
    /\ solar = None
    /\ exc = "TypeError"
    /\ response = Some([status_code |-> 500, detail |-> "TypeError"])

\* the API call ended in an HTTP error status or another exception, or its
\* data has no solarPotential block
NoSolarData ==
    \/ api[1].kind \in {"http_error", "exception"}
    \/ /\ api[1].kind = "ok"
       /\ Get(api[1].data, "solarPotential", None) = None

\* C26: the solar lookup never propagates a failure of the external solar
\* API: when the API call ends in an HTTP error status or any other
\* exception, or returns data without a solarPotential block,
\* get_solar_potential returns the latitude-based estimate; and on every path
\* the returned object's offset_pct is 0 until the estimator writes it.
C26_LookupFallsBack ==
    /\ (api # None /\ NoSolarData) =>
          /\ solar # None
          /\ solar[1] = [ estimate_solar_potential(request[1].lat)
                            EXCEPT !.offset_pct = solar[1].offset_pct ]
          /\ solar[1].max_panels = 34
          /\ solar[1].roof_area_sqft = 600
    /\ (pc = "solar_obtained") => (solar # None /\ solar[1].offset_pct = 0)

\* the API call ended in an HTTP error status at latitude 25.7: the estimate
\* of 13.6 kW x 5.93 peak sun hours x 365 x 0.80 was returned
C26_Witness ==
    /\ pc = "solar_obtained"
    /\ api # None
    /\ api[1].kind = "http_error"
    /\ request[1].lat = 257
    /\ solar # None
    /\ solar[1].annual_production_kwh = 23549
    /\ solar[1].offset_pct = 0

\* C21: for any interleaving of two or more concurrent invocations of
\* estimate that do not share a solar object, each invocation returns the
\* result it returns when run alone (its own solar object written as when
\* run alone), and the static tables are never modified.
C21_ConcurrentAsAlone ==
    /\ tables = ModuleTables
    /\ \A i \in DOMAIN calls :
          calls[i].pc \in {"returned", "raised"} =>
              /\ calls[i].exc = calls[i].alone.exc
              /\ calls[i].result = calls[i].alone.result
              /\ calls[i].solar = calls[i].alone.solar

\* two invocations in the same zone overlap: the first has computed its
\* annual loads and not yet finished, while the second, of another tier, has
\* returned with the offset written into its own solar object
C21_Witness ==
    /\ DOMAIN calls = Invocations
    /\ calls[1].pc = "computed"
    /\ calls[2].pc = "returned"
    /\ calls[1].args.lat = calls[2].args.lat
    /\ calls[1].args.efficiency = "standard"
    /\ calls[2].args.efficiency = "poor"
    /\ calls[2].solar # None
    /\ calls[2].solar[1].offset_pct > 0
    /\ calls[2].result = calls[2].alone.result

====
